---- MODULE Spec2Model ----
(***************************************************************************)
(* Festival light-sync relay (backend/server.py): the connection registry, *)
(* the broadcaster, the wave sequencer and the command relay, as tasks of  *)
(* one asyncio event loop.  A task runs without interruption from one      *)
(* await to the next; every action below resumes one task at the await it  *)
(* is suspended in and runs it to its next await.                          *)
(***************************************************************************)
EXTENDS Integers, Sequences, FiniteSets, TLC

VARIABLES
    participant_connections,  \* ConnectionManager.participant_connections
    admin_connections,        \* ConnectionManager.admin_connections
    latest_command,           \* module global latest_command
    latest_beat_data,         \* module global latest_beat_data
    light_commands,           \* number of documents in db.light_commands
    now,                      \* the server clock read by datetime.now
    broken,                   \* connections whose peer is gone: sends raise
    task                      \* one record per coroutine: handlers and requests

vars == <<participant_connections, admin_connections, latest_command,
          latest_beat_data, light_commands, now, broken, task>>

----------------------------------------------------------------------------
(* Bounds of the model *)

NumParticipants == 2
NumAdmins == 2
NumRequests == 1
MaxChanges == 1
MaxClock == 1
(* the heartbeats one participant sends *)
MaxHeartbeats == 1

(* send_wave_effect: delay = 300 *)
delay == 300

Participants == {<<"p", i>> : i \in 1..NumParticipants}
Admins       == {<<"a", i>> : i \in 1..NumAdmins}
Requests     == {<<"r", i>> : i \in 1..NumRequests}
(* the tasks of GET requests: stats and polls *)
Queries      == {<<"q", i>> : i \in 1..NumRequests}

NoConn == <<"none", 0>>
NoDelay == -1

(* ConnectionManager.__init__: the four keys of participant_connections *)
SectionKeys == {"all", "left", "center", "right"}
NamedSections == {"left", "center", "right"}
(* section values a client or an admin may name; "vip" is no key *)
SectionInputs == SectionKeys \cup {"vip"}
(* the documented wave_direction values and one that is not documented *)
WaveDirections ==
    {"left_to_right", "center_out", "right_to_left", "random", "spiral"}

----------------------------------------------------------------------------
(* Python list helpers *)

RECURSIVE Count(_, _)
Count(x, s) ==
    IF s = <<>> THEN 0
    ELSE (IF Head(s) = x THEN 1 ELSE 0) + Count(x, Tail(s))

InList(x, s) == \E i \in 1..Len(s) : s[i] = x

(* list.remove(x): drops the first occurrence *)
RECURSIVE ListRemove(_, _)
ListRemove(s, x) ==
    IF s = <<>> THEN <<>>
    ELSE IF Head(s) = x THEN Tail(s)
    ELSE <<Head(s)>> \o ListRemove(Tail(s), x)

ListSet(s) == {s[i] : i \in 1..Len(s)}

----------------------------------------------------------------------------
(* ConnectionManager: the registry, as functions of the membership lists *)

(* a slip in the join: the socket is appended to its section only *)
connect_participant_SectionOnly(pc, websocket, section) ==
    LET sec == IF section \in DOMAIN pc THEN section ELSE "all"
    IN  [pc EXCEPT ![sec] = Append(@, websocket)]

(* a slip in the join: a section that is no key is refused, the socket is
   not registered *)
connect_participant_Reject(pc, websocket, section) ==
    IF section \notin DOMAIN pc THEN pc
    ELSE LET p1 == [pc EXCEPT ![section] = Append(@, websocket)]
         IN  [p1 EXCEPT !["all"] = Append(@, websocket)]

(* connect_participant after its accept: coerce the section, append twice *)
connect_participant(pc, websocket, section) ==
    LET sec == IF section \in DOMAIN pc THEN section ELSE "all"
        p1  == [pc EXCEPT ![sec] = Append(@, websocket)]
    IN  [p1 EXCEPT !["all"] = Append(@, websocket)]

(* disconnect_participant: one list.remove in every list that holds it *)
disconnect_participant(pc, websocket) ==
    [k \in DOMAIN pc |->
        IF InList(websocket, pc[k]) THEN ListRemove(pc[k], websocket) ELSE pc[k]]

(* connect_admin after its accept *)
connect_admin(ac, websocket) == Append(ac, websocket)

(* disconnect_admin *)
disconnect_admin(ac, websocket) ==
    IF InList(websocket, ac) THEN ListRemove(ac, websocket) ELSE ac

(* a slip in the lookup: a section that is no key is read as "all" *)
TargetList_Coerce(pc, section) ==
    IF section \in DOMAIN pc THEN pc[section] ELSE pc["all"]

(* participant_connections.get(section, []) *)
TargetList(pc, section) == IF section \in DOMAIN pc THEN pc[section] ELSE <<>>

get_participant_count(pc, section) == Len(TargetList(pc, section))

get_section_stats(pc) ==
    [total  |-> Cardinality(ListSet(pc["all"])),
     left   |-> Len(pc["left"]),
     center |-> Len(pc["center"]),
     right  |-> Len(pc["right"])]

(* send_to_participants, the loop after the sends: disconnect every failed one *)
RECURSIVE PruneParticipants(_, _)
PruneParticipants(pc, disconnected) ==
    IF disconnected = <<>> THEN pc
    ELSE PruneParticipants(disconnect_participant(pc, Head(disconnected)),
                           Tail(disconnected))

(* send_to_admins, the loop after the sends: admin_connections.remove(conn)
   raises ValueError when conn is no longer in the list *)
RECURSIVE PruneAdmins(_, _)
PruneAdmins(ac, disconnected) ==
    IF disconnected = <<>> THEN [raised |-> FALSE, list |-> ac]
    ELSE IF ~InList(Head(disconnected), ac) THEN [raised |-> TRUE, list |-> ac]
    ELSE PruneAdmins(ListRemove(ac, Head(disconnected)), Tail(disconnected))

(* a slip in the order table: center_out handled like the default *)
WaveSections_NoCenterOut(wave_direction) ==
    IF wave_direction = "right_to_left" THEN <<"right", "center", "left">>
    ELSE <<"left", "center", "right">>

(* send_wave_effect: the section order chosen by wave_direction *)
WaveSections(wave_direction) ==
    IF wave_direction = "center_out" THEN <<"center", "left", "right">>
    ELSE IF wave_direction = "right_to_left" THEN <<"right", "center", "left">>
    ELSE <<"left", "center", "right">>

(* a slip in the delay: the same delay for every section *)
WaveDelay_Flat(i) == delay

(* send_wave_effect: wave_command['wave_delay'] = i * delay *)
WaveDelay(i) == i * delay

(* a slip in the pacing: a wait after the last section too *)
WaveSleeps_AfterLast(i, sections) == i < Len(sections)

(* send_wave_effect: if i < len(sections) - 1: await asyncio.sleep *)
WaveSleeps(i, sections) == i < Len(sections) - 1

----------------------------------------------------------------------------
(* Coroutines.  pc names the await a task is suspended in (YieldPcs) or the
   statement it runs next; ret and wret are the return points of the
   send_to_* call and of the send_wave_effect call in progress. *)

YieldPcs == {"idle", "accept", "recv", "send_p", "send_a", "ack",
             "init_stats", "db_insert", "sleep", "closed", "crashed", "done",
             "beat_insert", "find_event", "wa_insert"}

(* the value None of latest_command and of an unused command_data *)
NoCmd == [effect |-> "none", section |-> "none", wave_direction |-> "none",
          timestamp |-> 0]
NoStats == [total |-> -1, left |-> -1, center |-> -1, right |-> -1]
(* the value None of latest_beat_data *)
NoBeat == [bpm |-> -1, intensity |-> -1, timestamp |-> -1]
(* what a request handler returns: the body of its response; beat is
   beat_sync_active in the stats, bpm in the answer to a beat sample and the
   cached sample in the answer to a poll for the latest beat *)
Result(kind, command, stats, admins, beat) ==
    [kind |-> kind, command |-> command, stats |-> stats, admins |-> admins,
     beat |-> beat]
NoResult == Result("none", NoCmd, NoStats, 0, FALSE)

(* the query parameter timestamp of get_latest_command: absent (None), the
   empty string, a text datetime.fromisoformat refuses, or an ISO text of
   the instant t with a UTC offset ("aware") or without one ("naive") *)
NoSince == [form |-> "absent", t |-> 0]
SinceForms == {"absent", "empty", "malformed", "aware", "naive"}

(* get_latest_command.  latest_command['timestamp'] is the isoformat of an
   aware datetime; comparing it with a naive one raises TypeError, which the
   bare except turns into the cached command, as it does the ValueError of
   fromisoformat *)
get_latest_command(lc, timestamp) ==
    IF lc # NoCmd
    THEN IF timestamp.form \notin {"absent", "empty"}
         THEN IF timestamp.form = "malformed" THEN lc
              ELSE IF timestamp.form = "naive" THEN lc
              ELSE IF lc.timestamp > timestamp.t THEN lc ELSE NoCmd
         ELSE lc
    ELSE NoCmd

(* a message: its "type", its "data" (with data['wave_delay'], NoDelay when
   the key is absent) and its "section_stats" *)
Msg(type, data, wave_delay, stats) ==
    [type |-> type, data |-> data, delay |-> wave_delay, stats |-> stats]
NoMsg == Msg("none", NoCmd, NoDelay, NoStats)

NewTask ==
    [pc |-> "idle", ret |-> "none", wret |-> "none",
     section |-> "none",       \* websocket_participant: section / new_section
     changes |-> 0,            \* section_change (participant) or
                               \* light_command (admin) messages handled
     command_data |-> NoCmd,   \* send_light_command: command_data
     bsec |-> "none",          \* send_to_participants: section
     msg |-> NoMsg,            \* send_to_*: message
     it |-> 0,                 \* send_to_*: position of the list iterator
     cur |-> NoConn,           \* send_to_*: connection
     disconnected |-> <<>>,    \* send_to_*: disconnected
     i |-> 0,                  \* send_wave_effect: i
     sections |-> <<>>,        \* send_wave_effect: sections
     window |-> {},            \* participants in a section change when the
                               \* broadcast in progress began
     asleep |-> {},            \* tasks in a pacing wait when this one began
     result |-> NoResult,      \* the response the request returned
     since |-> NoSince,        \* get_latest_command: timestamp
     beat_data |-> NoBeat,     \* receive_beat_data: beat_data
     active_event |-> FALSE,   \* receive_beat_data: active_event
     log |-> <<>>]             \* what the task has sent and awaited

Ev(ev, to, sec, msg, ok) ==
    [ev |-> ev, to |-> to, sec |-> sec, msg |-> msg, ok |-> ok]

(* the shared state a task step reads and writes *)
State == [pcs |-> participant_connections, acs |-> admin_connections,
          lc |-> latest_command, lb |-> latest_beat_data,
          hist |-> light_commands, now |-> now, task |-> task]

Upd(S, t, r) == [S EXCEPT !.task[t] = r]

Goto(S, t, pc) == Upd(S, t, [S.task[t] EXCEPT !.pc = pc])

(* an exception no handler catches ends the task: its frame is dropped *)
Raise(S, t) ==
    Upd(S, t, [NewTask EXCEPT !.pc = "crashed", !.log = S.task[t].log])

(* participants that have left every list and not yet rejoined: the
   section_change branch between disconnect_participant and the append *)
InSectionChange(S) ==
    {p \in DOMAIN S.task :
        S.task[p].pc = "accept" /\ S.task[p].ret = "wp_loop"}

(* the tasks suspended in the asyncio.sleep of send_wave_effect *)
Asleep(S) == {w \in DOMAIN S.task : S.task[w].pc = "sleep"}

(* a slip in the entry: a section without members is an error *)
sp_begin_Raise(S, t) ==
    LET T == S.task[t] IN
    IF TargetList(S.pcs, T.bsec) # <<>>
    THEN Upd(S, t, [T EXCEPT !.pc = "sp_next", !.it = 0, !.disconnected = <<>>,
                             !.window = InSectionChange(S)])
    ELSE Raise(S, t)

(* send_to_participants: entry, up to the first send *)
sp_begin(S, t) ==
    LET T == S.task[t] IN
    IF TargetList(S.pcs, T.bsec) # <<>>
    THEN Upd(S, t, [T EXCEPT !.pc = "sp_next", !.it = 0, !.disconnected = <<>>,
                             !.window = InSectionChange(S)])
    ELSE Upd(S, t, [T EXCEPT !.pc = T.ret, !.msg = NoMsg,
                             !.window = InSectionChange(S)])

(* send_to_participants: the for statement takes the next connection of the
   live list, or ends the loop *)
sp_next(S, t) ==
    LET T == S.task[t]
        target_connections == TargetList(S.pcs, T.bsec) IN
    IF T.it < Len(target_connections)
    THEN Upd(S, t, [T EXCEPT !.pc = "send_p", !.it = T.it + 1,
                             !.cur = target_connections[T.it + 1]])
    ELSE Upd(S, t, [T EXCEPT !.pc = "sp_prune"])

(* a slip in the loop: a failed send ends it *)
sp_sent_Abort(S, t, ok) ==
    LET T == S.task[t] IN
    Upd(S, t, [T EXCEPT !.pc = IF ok THEN "sp_next" ELSE "sp_prune",
                        !.log = Append(@, Ev("send", T.cur, T.bsec, T.msg, ok)),
                        !.disconnected = IF ok THEN @ ELSE Append(@, T.cur)])

(* send_to_participants: a send returned (ok) or raised *)
sp_sent(S, t, ok) ==
    LET T == S.task[t] IN
    Upd(S, t, [T EXCEPT !.pc = "sp_next",
                        !.log = Append(@, Ev("send", T.cur, T.bsec, T.msg, ok)),
                        !.disconnected = IF ok THEN @ ELSE Append(@, T.cur)])

(* send_to_participants: remove disconnected connections, return *)
sp_prune(S, t) ==
    LET T == S.task[t] IN
    [Upd(S, t, [T EXCEPT !.pc = T.ret, !.disconnected = <<>>, !.cur = NoConn,
                         !.it = 0, !.msg = NoMsg])
        EXCEPT !.pcs = PruneParticipants(S.pcs, T.disconnected)]

(* send_to_admins: entry *)
sa_begin(S, t) ==
    LET T == S.task[t] IN
    IF S.acs # <<>>
    THEN Upd(S, t, [T EXCEPT !.pc = "sa_next", !.it = 0, !.disconnected = <<>>])
    ELSE Upd(S, t, [T EXCEPT !.pc = T.ret, !.msg = NoMsg])

(* send_to_admins: the for statement *)
sa_next(S, t) ==
    LET T == S.task[t] IN
    IF T.it < Len(S.acs)
    THEN Upd(S, t, [T EXCEPT !.pc = "send_a", !.it = T.it + 1,
                             !.cur = S.acs[T.it + 1]])
    ELSE Upd(S, t, [T EXCEPT !.pc = "sa_prune"])

(* send_to_admins: a send returned (ok) or raised *)
sa_sent(S, t, ok) ==
    LET T == S.task[t] IN
    Upd(S, t, [T EXCEPT !.pc = "sa_next",
                        !.log = Append(@, Ev("asend", T.cur, "admins", T.msg, ok)),
                        !.disconnected = IF ok THEN @ ELSE Append(@, T.cur)])

(* send_to_admins: remove disconnected connections; a ValueError of
   list.remove is caught by no caller and ends the calling task *)
sa_prune(S, t) ==
    LET T == S.task[t]
        r == PruneAdmins(S.acs, T.disconnected) IN
    [(IF r.raised THEN Raise(S, t)
      ELSE Upd(S, t, [T EXCEPT !.pc = T.ret, !.disconnected = <<>>,
                               !.cur = NoConn, !.it = 0, !.msg = NoMsg]))
        EXCEPT !.acs = r.list]

----------------------------------------------------------------------------
(* websocket_participant *)

(* connect_participant, after accept returned: register, return to caller *)
cp_append(S, t) ==
    LET T == S.task[t] IN
    [Upd(S, t, [T EXCEPT !.pc = T.ret])
        EXCEPT !.pcs = connect_participant(S.pcs, t, T.section)]

(* after the first connect_participant: push participant_update to admins *)
wp_joined(S, t) ==
    LET T == S.task[t] IN
    Upd(S, t, [T EXCEPT !.pc = "sa_begin", !.ret = "wp_loop",
                 !.msg = Msg("participant_update", NoCmd, NoDelay,
                             get_section_stats(S.pcs))])

(* the heartbeat_ack sends of a handler that have ended *)
Acked(T) == Cardinality({n \in 1..Len(T.log) : T.log[n].ev = "ack"})

(* the heartbeat also registers the connection again *)
wp_heartbeat_Reregister(S, t) ==
    LET T == S.task[t] IN
    [Upd(S, t, [T EXCEPT !.pc = "ack",
                         !.msg = Msg("heartbeat_ack", NoCmd, NoDelay, NoStats)])
        EXCEPT !.pcs = connect_participant(S.pcs, t, T.section)]

(* the heartbeat branch up to its send_text *)
wp_heartbeat(S, t) ==
    Upd(S, t, [S.task[t] EXCEPT
                 !.pc = "ack",
                 !.msg = Msg("heartbeat_ack", NoCmd, NoDelay, NoStats)])

(* the send_text of the heartbeat branch returned (ok) or raised exc *)
wp_acked(S, t, ok, exc) ==
    LET T == S.task[t]
        sent == Upd(S, t, [T EXCEPT
                             !.log = Append(@, Ev("ack", t, T.section, T.msg, ok)),
                             !.msg = NoMsg])
    IN  IF ok THEN Goto(sent, t, "wp_loop")
        ELSE IF exc = "WebSocketDisconnect" THEN Goto(sent, t, "wp_left")
        ELSE Raise(sent, t)

(* while True: await websocket.receive_text() *)
wp_loop(S, t) == Upd(S, t, [S.task[t] EXCEPT !.pc = "recv"])

(* the section_change branch up to the accept of connect_participant *)
wp_section_change(S, t, new_section) ==
    LET T == S.task[t] IN
    [Upd(S, t, [T EXCEPT !.pc = "accept", !.ret = "wp_loop",
                         !.section = new_section, !.changes = T.changes + 1,
                         !.asleep = Asleep(S)])
        EXCEPT !.pcs = disconnect_participant(S.pcs, t)]

(* except WebSocketDisconnect: leave, then push participant_update *)
wp_left(S, t) ==
    LET T == S.task[t]
        left == disconnect_participant(S.pcs, t) IN
    [Upd(S, t, [T EXCEPT !.pc = "sa_begin", !.ret = "wp_end",
                  !.msg = Msg("participant_update", NoCmd, NoDelay,
                              get_section_stats(left))])
        EXCEPT !.pcs = left]

wp_end(S, t) == Upd(S, t, [NewTask EXCEPT !.pc = "closed"])

(* websocket_admin *)

(* connect_admin after accept returned, up to the send of initial_stats *)
ca_append(S, t) ==
    LET T == S.task[t] IN
    LET acs == connect_admin(S.acs, t) IN
    [Upd(S, t, [T EXCEPT !.pc = "init_stats",
                  !.msg = [admin_count |-> Len(acs)]
                          @@ Msg("initial_stats", NoCmd, NoDelay,
                                 get_section_stats(S.pcs))])
        EXCEPT !.acs = acs]

(* the light_command branch: dispatch command_data as a wave, or forward
   the message as it came to command_data.get("section", "all") *)
wa_light_command(S, t, command_data) ==
    LET T == [S.task[t] EXCEPT !.command_data = command_data,
                               !.changes = @ + 1, !.asleep = Asleep(S)] IN
    IF command_data.effect = "wave"
    THEN Upd(S, t, [T EXCEPT !.pc = "swe_begin", !.wret = "wa_stamp"])
    ELSE Upd(S, t, [T EXCEPT !.pc = "sp_begin", !.ret = "wa_stamp",
                      !.bsec = command_data.section,
                      !.msg = Msg("light_command", command_data, NoDelay,
                                  NoStats)])

(* after the dispatch: stamp command_data, start the insert into
   db.light_commands *)
wa_stamp(S, t) ==
    LET T == S.task[t] IN
    Upd(S, t, [T EXCEPT !.pc = "wa_insert", !.command_data.timestamp = S.now])

(* except WebSocketDisconnect: disconnect_admin *)
wa_left(S, t) ==
    [Upd(S, t, [NewTask EXCEPT !.pc = "closed"])
        EXCEPT !.acs = disconnect_admin(S.acs, t)]

----------------------------------------------------------------------------
(* send_light_command and send_wave_effect *)

(* stamp, store as latest command, start the insert into db.light_commands *)
slc_begin(S, t, command, timestamp) ==
    LET command_data == [command EXCEPT !.timestamp = timestamp] IN
    [Upd(S, t, [S.task[t] EXCEPT !.pc = "db_insert",
                                 !.command_data = command_data,
                                 !.asleep = Asleep(S)])
        EXCEPT !.lc = command_data]

(* a slip in the cache write: the command is stored as latest once more
   when its insert has returned *)
slc_dispatch_Recache(S, t) ==
    LET T == S.task[t] IN
    [(IF T.command_data.effect = "wave"
      THEN Upd(S, t, [T EXCEPT !.pc = "swe_begin", !.wret = "slc_notify"])
      ELSE Upd(S, t, [T EXCEPT !.pc = "sp_begin", !.ret = "slc_notify",
                        !.bsec = T.command_data.section,
                        !.msg = Msg("light_command", T.command_data, NoDelay,
                                    NoStats)]))
        EXCEPT !.lc = T.command_data]

(* the insert returned: dispatch as a wave or to command.section *)
slc_dispatch(S, t) ==
    LET T == S.task[t] IN
    IF T.command_data.effect = "wave"
    THEN Upd(S, t, [T EXCEPT !.pc = "swe_begin", !.wret = "slc_notify"])
    ELSE Upd(S, t, [T EXCEPT !.pc = "sp_begin", !.ret = "slc_notify",
                      !.bsec = T.command_data.section,
                      !.msg = Msg("light_command", T.command_data, NoDelay,
                                  NoStats)])

(* notify admins about the command *)
slc_notify(S, t) ==
    LET T == S.task[t] IN
    Upd(S, t, [T EXCEPT !.pc = "sa_begin", !.ret = "slc_return",
                 !.msg = Msg("command_sent", T.command_data, NoDelay,
                             get_section_stats(S.pcs))])

slc_return(S, t) == Upd(S, t, [S.task[t] EXCEPT !.pc = "done"])

(* send_wave_effect: choose the order; command_data['wave_direction'] raises
   KeyError when the key is absent *)
swe_begin(S, t) ==
    LET T == S.task[t] IN
    IF T.command_data.wave_direction = "none" THEN Raise(S, t)
    ELSE Upd(S, t, [T EXCEPT !.pc = "swe_iter", !.i = 0,
                      !.sections = WaveSections(T.command_data.wave_direction)])

(* send_wave_effect: for i, section in enumerate(sections) *)
swe_iter(S, t) ==
    LET T == S.task[t] IN
    IF T.i < Len(T.sections)
    THEN LET m == Msg("light_command", T.command_data, WaveDelay(T.i), NoStats)
         IN Upd(S, t, [T EXCEPT !.pc = "sp_begin", !.ret = "swe_after",
                         !.bsec = T.sections[T.i + 1], !.msg = m,
                         !.log = Append(@, Ev("dispatch", NoConn,
                                              T.sections[T.i + 1], m, TRUE))])
    ELSE Upd(S, t, [T EXCEPT !.pc = T.wret])

(* a slip in the pacing: time.sleep, which does not suspend the task *)
swe_after_Blocking(S, t) ==
    LET T == S.task[t] IN
    Upd(S, t, [T EXCEPT !.pc = "swe_iter", !.i = T.i + 1,
                 !.log = IF WaveSleeps(T.i, T.sections)
                         THEN Append(@, Ev("sleep", NoConn, "none", NoMsg, TRUE))
                         ELSE @])

(* send_wave_effect: the pacing wait between two sections *)
swe_after(S, t) ==
    LET T == S.task[t] IN
    IF WaveSleeps(T.i, T.sections)
    THEN Upd(S, t, [T EXCEPT !.pc = "sleep",
                      !.log = Append(@, Ev("sleep", NoConn, "none", NoMsg, TRUE))])
    ELSE Upd(S, t, [T EXCEPT !.pc = "swe_iter", !.i = T.i + 1])

(* a slip in the sequencer: a wave that wakes up while another wave is in
   progress gives way to it and returns *)
swe_woken_Cancel(S, t) ==
    LET T == S.task[t] IN
    IF \E o \in DOMAIN S.task \ {t} :
          S.task[o].sections # <<>> /\ S.task[o].pc # "done"
    THEN Upd(S, t, [T EXCEPT !.pc = T.wret])
    ELSE Upd(S, t, [T EXCEPT !.pc = "swe_iter", !.i = T.i + 1])

(* asyncio.sleep returned *)
swe_woken(S, t) ==
    LET T == S.task[t] IN Upd(S, t, [T EXCEPT !.pc = "swe_iter", !.i = T.i + 1])

----------------------------------------------------------------------------
(* receive_beat_data.  Intensities are in tenths: 10 is 1.0 *)

(* a slip in the cap: the intensity of the sample as it came *)
BeatIntensity_Uncapped(intensity) == intensity

(* min(beat_data.intensity, 1.0) *)
BeatIntensity(intensity) == IF intensity < 10 THEN intensity ELSE 10

(* beat_command *)
BeatCommand(beat_data, timestamp) ==
    [command_type |-> "beat_sync", color |-> "#FFFFFF", effect |-> "beat_sync",
     intensity |-> BeatIntensity(beat_data.intensity), bpm |-> beat_data.bpm,
     timestamp |-> timestamp]

(* stamp the sample, store it as latest beat, start the insert into
   db.beat_data *)
rbd_begin(S, t, beat_data, timestamp) ==
    LET beat_dict == [beat_data EXCEPT !.timestamp = timestamp] IN
    [Upd(S, t, [S.task[t] EXCEPT !.pc = "beat_insert", !.beat_data = beat_dict])
        EXCEPT !.lb = beat_dict]

(* a slip in the relay: the derived beat_sync command is stored as latest
   command too *)
rbd_found_Cache(S, t, active_event) ==
    LET T == S.task[t]
        m == Msg("beat_sync", BeatCommand(T.beat_data, T.beat_data.timestamp),
                 NoDelay, NoStats) IN
    IF active_event
    THEN [Upd(S, t, [T EXCEPT !.pc = "sp_begin", !.ret = "rbd_return",
                       !.active_event = TRUE, !.bsec = "all", !.msg = m,
                       !.log = Append(@, Ev("dispatch", NoConn, "all", m, TRUE))])
            EXCEPT !.lc = [NoCmd EXCEPT !.effect = "beat_sync", !.section = "all",
                                        !.timestamp = T.beat_data.timestamp]]
    ELSE Upd(S, t, [T EXCEPT !.pc = "rbd_return", !.active_event = FALSE])

(* db.events.find_one returned: broadcast beat_sync to the default section
   when it found an active event with beat sync enabled *)
rbd_found(S, t, active_event) ==
    LET T == S.task[t]
        m == Msg("beat_sync", BeatCommand(T.beat_data, T.beat_data.timestamp),
                 NoDelay, NoStats) IN
    IF active_event
    THEN Upd(S, t, [T EXCEPT !.pc = "sp_begin", !.ret = "rbd_return",
                      !.active_event = TRUE, !.bsec = "all", !.msg = m,
                      !.log = Append(@, Ev("dispatch", NoConn, "all", m, TRUE))])
    ELSE Upd(S, t, [T EXCEPT !.pc = "rbd_return", !.active_event = FALSE])

rbd_return(S, t) ==
    LET T == S.task[t] IN
    Upd(S, t, [T EXCEPT !.pc = "done",
                 !.result = Result("beat", NoCmd, NoStats, 0, T.beat_data.bpm)])

----------------------------------------------------------------------------
(* One statement of task t, and the run of t up to its next await *)

Micro(S, t) ==
    LET pc == S.task[t].pc IN
    CASE pc = "sp_begin"     -> sp_begin(S, t)
      [] pc = "sp_next"      -> sp_next(S, t)
      [] pc = "sp_prune"     -> sp_prune(S, t)
      [] pc = "sa_begin"     -> sa_begin(S, t)
      [] pc = "sa_next"      -> sa_next(S, t)
      [] pc = "sa_prune"     -> sa_prune(S, t)
      [] pc = "cp_append"    -> cp_append(S, t)
      [] pc = "wp_joined"    -> wp_joined(S, t)
      [] pc = "wp_loop"      -> wp_loop(S, t)
      [] pc = "wp_left"      -> wp_left(S, t)
      [] pc = "wp_end"       -> wp_end(S, t)
      [] pc = "ca_append"    -> ca_append(S, t)
      [] pc = "wa_left"      -> wa_left(S, t)
      [] pc = "slc_dispatch" -> slc_dispatch(S, t)
      [] pc = "slc_notify"   -> slc_notify(S, t)
      [] pc = "slc_return"   -> slc_return(S, t)
      [] pc = "swe_begin"    -> swe_begin(S, t)
      [] pc = "swe_iter"     -> swe_iter(S, t)
      [] pc = "swe_after"    -> swe_after(S, t)
      [] pc = "rbd_return"   -> rbd_return(S, t)
      [] pc = "wa_stamp"     -> wa_stamp(S, t)

RECURSIVE RunToAwait(_, _)
RunToAwait(S, t) ==
    IF S.task[t].pc \in YieldPcs THEN S
    ELSE CHOOSE R \in {RunToAwait(N, t) : N \in {Micro(S, t)}} : TRUE

(* the state after task t ran from S to its next await *)
Commit(S, t) ==
    LET R == RunToAwait(S, t) IN
    /\ participant_connections' = R.pcs
    /\ admin_connections' = R.acs
    /\ latest_command' = R.lc
    /\ latest_beat_data' = R.lb
    /\ light_commands' = R.hist
    /\ task' = R.task

----------------------------------------------------------------------------
(* Inputs *)

(* LightCommand bodies: a plain effect to any section value, or a wave *)
Commands ==
    {[effect |-> "pulse", section |-> sec, wave_direction |-> "left_to_right",
      timestamp |-> 0] : sec \in SectionInputs}
    \cup
    {[effect |-> "wave", section |-> "all", wave_direction |-> w,
      timestamp |-> 0] : w \in WaveDirections}

(* a send to c raises: its peer is gone, or its handler has ended and the
   server has closed the socket *)
Dead(c) == c \in broken \/ task[c].pc \in {"closed", "crashed"}

----------------------------------------------------------------------------
(* Actions: the events of the event loop *)

IsAdmin(t) == t[1] = "a"
IsParticipant(t) == t[1] = "p"

EmptyRegistry(tasks) ==
    /\ participant_connections = [k \in SectionKeys |-> <<>>]
    /\ admin_connections = <<>>
    /\ latest_command = NoCmd
    /\ latest_beat_data = NoBeat
    /\ light_commands = 0
    /\ now = 0
    /\ broken = {}
    /\ task = [t \in tasks |-> NewTask]

(* the state after construction: no connection, nothing accepted *)
Init == EmptyRegistry(Participants \cup Requests)

(* a client opens /ws/participant/{section}: the handler starts and awaits
   the accept of connect_participant *)
ParticipantConnects(p, section) ==
    /\ task[p].pc = "idle"
    /\ task' = [task EXCEPT ![p] = [@ EXCEPT !.pc = "accept",
                                             !.ret = "wp_joined",
                                             !.section = section,
                                             !.asleep = Asleep(State)]]
    /\ UNCHANGED <<participant_connections, admin_connections, latest_command,
                   latest_beat_data, light_commands, now, broken>>

(* a slip in the admin join: the socket is registered when the handler
   starts, before its accept *)
AdminConnects_AppendFirst(a) ==
    /\ task[a].pc = "idle"
    /\ task' = [task EXCEPT ![a] = [@ EXCEPT !.pc = "accept"]]
    /\ admin_connections' = connect_admin(admin_connections, a)
    /\ UNCHANGED <<participant_connections, latest_command,
                   latest_beat_data, light_commands, now, broken>>

(* a client opens /ws/admin *)
AdminConnects(a) ==
    /\ task[a].pc = "idle"
    /\ task' = [task EXCEPT ![a] = [@ EXCEPT !.pc = "accept"]]
    /\ UNCHANGED <<participant_connections, admin_connections, latest_command,
                   latest_beat_data, light_commands, now, broken>>

(* websocket.accept() returns, or raises on a socket it has accepted before
   (the second accept of a section change) *)
AcceptReturns(t, ok) ==
    /\ task[t].pc = "accept"
    /\ ~ok => task[t].ret = "wp_loop"
    /\ Commit(IF ~ok THEN Raise(State, t)
              ELSE Goto(State, t, IF IsAdmin(t) THEN "ca_append"
                                  ELSE "cp_append"), t)
    /\ UNCHANGED <<now, broken>>

(* receive_text returns a message of a participant *)
ParticipantReceives(p, type, section) ==
    /\ task[p].pc = "recv"
    /\ ~Dead(p)
    /\ type = "section_change" => task[p].changes < MaxChanges
    /\ type = "heartbeat" => Acked(task[p]) < MaxHeartbeats
    /\ Commit(CASE type = "heartbeat" -> wp_heartbeat(State, p)
                [] type = "section_change" -> wp_section_change(State, p, section)
                [] type = "unknown" -> Goto(State, p, "wp_loop")
                [] type = "unparsable" -> Raise(State, p), p)
    /\ UNCHANGED <<now, broken>>

(* receive_text returns a message of an admin, elapsed after the last
   clock read: a light_command with data command_data, a message of another
   type, or a text json.loads refuses *)
AdminReceives(a, type, command_data, elapsed) ==
    /\ task[a].pc = "recv"
    /\ ~Dead(a)
    /\ now + elapsed <= MaxClock
    /\ now' = now + elapsed
    /\ type = "light_command" => task[a].changes < MaxChanges
    /\ LET S == [State EXCEPT !.now = now + elapsed] IN
       Commit(CASE type = "light_command" -> wa_light_command(S, a, command_data)
                [] type = "unknown" -> S
                [] type = "unparsable" -> Raise(S, a), a)
    /\ UNCHANGED broken

(* db.light_commands.insert_one returns in the admin handler: back to
   receive_text *)
AdminInsertReturns(a) ==
    /\ task[a].pc = "wa_insert"
    /\ Commit([Goto(State, a, "recv") EXCEPT !.hist = light_commands + 1], a)
    /\ UNCHANGED <<now, broken>>

(* the send of heartbeat_ack returns, or raises exc on a dead socket *)
AckReturns(p, exc) ==
    /\ task[p].pc = "ack"
    /\ Commit(wp_acked(State, p, ~Dead(p), exc), p)
    /\ UNCHANGED <<now, broken>>

(* receive_text raises WebSocketDisconnect *)
ReceiveDisconnect(t) ==
    /\ task[t].pc = "recv"
    /\ t \in broken
    /\ Commit(Goto(State, t, IF IsAdmin(t) THEN "wa_left" ELSE "wp_left"), t)
    /\ UNCHANGED <<now, broken>>

(* the send of initial_stats returns, or raises exc on a dead socket *)
InitStatsReturns(a, exc) ==
    /\ task[a].pc = "init_stats"
    /\ Commit(IF Dead(a) /\ exc # "WebSocketDisconnect" THEN Raise(State, a)
              ELSE Goto(State, a, IF Dead(a) THEN "wa_left" ELSE "recv"), a)
    /\ UNCHANGED <<now, broken>>

(* a send of send_to_participants returns or raises *)
ParticipantSendReturns(t) ==
    /\ task[t].pc = "send_p"
    /\ Commit(sp_sent(State, t, ~Dead(task[t].cur)), t)
    /\ UNCHANGED <<now, broken>>

(* a send of send_to_admins returns or raises *)
AdminSendReturns(t) ==
    /\ task[t].pc = "send_a"
    /\ Commit(sa_sent(State, t, ~Dead(task[t].cur)), t)
    /\ UNCHANGED <<now, broken>>

(* POST /api/light-command: elapsed is the time since the last clock read *)
PostLightCommand(r, command, elapsed) ==
    /\ task[r].pc = "idle"
    /\ now + elapsed <= MaxClock
    /\ now' = now + elapsed
    /\ Commit(slc_begin(State, r, command, now + elapsed), r)
    /\ UNCHANGED broken

(* db.light_commands.insert_one returns *)
InsertReturns(r) ==
    /\ task[r].pc = "db_insert"
    /\ Commit([Goto(State, r, "slc_dispatch")
                  EXCEPT !.hist = light_commands + 1], r)
    /\ UNCHANGED <<now, broken>>

(* the presets of send_preset as LightCommand models: wave_direction takes
   its default where the preset does not name it *)
presets ==
    [party_mode |-> [effect |-> "strobe", section |-> "all",
                     wave_direction |-> "left_to_right", timestamp |-> 0],
     calm_wave |-> [effect |-> "wave", section |-> "all",
                    wave_direction |-> "left_to_right", timestamp |-> 0],
     festival_finale |-> [effect |-> "rainbow", section |-> "all",
                          wave_direction |-> "left_to_right", timestamp |-> 0]]

(* every unknown name is answered as if it were party_mode *)
send_preset_Default(S, t, preset_name, timestamp) ==
    IF preset_name \in DOMAIN presets
    THEN slc_begin(S, t, presets[preset_name], timestamp)
    ELSE slc_begin(S, t, presets["party_mode"], timestamp)

(* send_preset: a known name is handed to send_light_command, any other is
   answered with {"error": "Preset not found"} *)
send_preset(S, t, preset_name, timestamp) ==
    IF preset_name \in DOMAIN presets
    THEN slc_begin(S, t, presets[preset_name], timestamp)
    ELSE Upd(S, t, [S.task[t] EXCEPT
                      !.pc = "done",
                      !.result = Result("preset_not_found", NoCmd, NoStats,
                                        0, FALSE)])

(* POST /api/preset/{preset_name} *)
PostPreset(r, preset_name, elapsed) ==
    /\ task[r].pc = "idle"
    /\ now + elapsed <= MaxClock
    /\ now' = now + elapsed
    /\ Commit(send_preset(State, r, preset_name, now + elapsed), r)
    /\ UNCHANGED broken

(* POST /api/beat-data *)
PostBeatData(r, beat_data, elapsed) ==
    /\ task[r].pc = "idle"
    /\ now + elapsed <= MaxClock
    /\ now' = now + elapsed
    /\ Commit(rbd_begin(State, r, beat_data, now + elapsed), r)
    /\ UNCHANGED broken

(* db.beat_data.insert_one returns *)
BeatInsertReturns(r) ==
    /\ task[r].pc = "beat_insert"
    /\ Commit(Goto(State, r, "find_event"), r)
    /\ UNCHANGED <<now, broken>>

(* db.events.find_one returns an event that is active with beat sync
   enabled, or None *)
FindEventReturns(r, active_event) ==
    /\ task[r].pc = "find_event"
    /\ Commit(rbd_found(State, r, active_event), r)
    /\ UNCHANGED <<now, broken>>

(* asyncio.sleep(delay / 1000) returns *)
SleepReturns(r) ==
    /\ task[r].pc = "sleep"
    /\ Commit(swe_woken(State, r), r)
    /\ UNCHANGED <<now, broken>>

(* GET /api/stats: get_stats has no await and returns at once *)
GetStats(q) ==
    /\ task[q].pc = "idle"
    /\ LET section_stats == get_section_stats(participant_connections) IN
       task' = [task EXCEPT ![q] =
                  [@ EXCEPT !.pc = "done", !.asleep = Asleep(State),
                            !.result = Result("stats", NoCmd, section_stats,
                                              Len(admin_connections),
                                              latest_beat_data # NoBeat)]]
    /\ UNCHANGED <<participant_connections, admin_connections, latest_command,
                   latest_beat_data, light_commands, now, broken>>

(* GET /api/latest-command?timestamp=...: no await, returns at once *)
PollLatestCommand(q, timestamp) ==
    /\ task[q].pc = "idle"
    /\ task' = [task EXCEPT ![q] =
                  [@ EXCEPT !.pc = "done", !.since = timestamp,
                            !.result = Result("command",
                                get_latest_command(latest_command, timestamp),
                                NoStats, 0, FALSE)]]
    /\ UNCHANGED <<participant_connections, admin_connections, latest_command,
                   latest_beat_data, light_commands, now, broken>>

(* GET /api/latest-beat: no await, returns the cache as it is *)
PollLatestBeat(q) ==
    /\ task[q].pc = "idle"
    /\ task' = [task EXCEPT ![q] =
                  [@ EXCEPT !.pc = "done",
                            !.result = Result("latest_beat", NoCmd, NoStats, 0,
                                              latest_beat_data)]]
    /\ UNCHANGED <<participant_connections, admin_connections, latest_command,
                   latest_beat_data, light_commands, now, broken>>

(* the peer of a connection goes away *)
PeerGone(c) ==
    /\ c \notin broken
    /\ task[c].pc \notin {"idle", "closed", "crashed"}
    /\ broken' = broken \cup {c}
    /\ UNCHANGED <<participant_connections, admin_connections, latest_command,
                   latest_beat_data, light_commands, now, task>>

MessageTypes == {"heartbeat", "section_change", "unknown", "unparsable"}
Exceptions == {"WebSocketDisconnect", "RuntimeError"}

(* the participant channel: join, section change and leave, with the section
   values drawn from sections *)
ParticipantEvents(sections) ==
    \/ \E p \in Participants, sec \in sections : ParticipantConnects(p, sec)
    \/ \E p \in Participants, ok \in BOOLEAN : AcceptReturns(p, ok)
    \/ \E p \in Participants, sec \in sections :
          ParticipantReceives(p, "section_change", sec)
    \/ \E p \in Participants : ReceiveDisconnect(p)
    \/ \E p \in Participants : PeerGone(p)

(* the command submission surface and the sends of its broadcasts; gaps are
   the times that may have passed since the clock was last read *)
CommandEvents(commands, gaps) ==
    \/ \E r \in Requests, c \in commands, e \in gaps : PostLightCommand(r, c, e)
    \/ \E r \in Requests : InsertReturns(r)
    \/ \E t \in DOMAIN task : ParticipantSendReturns(t)

(* two named sections, "all" and a value that is no key *)
FewSections == {"all", "left", "center", "vip"}
PlainCommands == {c \in Commands : c.effect # "wave" /\ c.section \in FewSections}

(* participants come, move and go while plain commands are broadcast *)
Next ==
    \/ ParticipantEvents(FewSections)
    \/ CommandEvents(PlainCommands, {1})

Spec == Init /\ [][Next]_vars

(* the registry alone: participants join, change section and leave *)
InitRegistry == EmptyRegistry(Participants)
NextRegistry == ParticipantEvents(SectionInputs)
SpecRegistry == InitRegistry /\ [][NextRegistry]_vars

(* Established connections: one participant has joined each named section
   and the admins in admins have connected; their handlers wait in
   receive_text *)
Member == [left |-> <<"p", 1>>, center |-> <<"p", 2>>, right |-> <<"p", 3>>]
Members == {Member[k] : k \in NamedSections}
Joined(section) ==
    [NewTask EXCEPT !.pc = "recv", !.ret = "wp_loop", !.section = section]
AdminList == [n \in 1..NumAdmins |-> <<"a", n>>]

EstablishedWith(admins, others) ==
    /\ participant_connections =
          [k \in SectionKeys |->
              IF k = "all" THEN <<Member["left"], Member["center"], Member["right"]>>
              ELSE <<Member[k]>>]
    /\ admin_connections = admins
    /\ latest_command = NoCmd
    /\ latest_beat_data = NoBeat
    /\ light_commands = 0
    /\ now = 0
    /\ broken = {}
    /\ task = [t \in Members \cup ListSet(admins) \cup others |->
                 IF t \in others THEN NewTask
                 ELSE IF IsAdmin(t) THEN [NewTask EXCEPT !.pc = "recv"]
                 ELSE Joined(CHOOSE k \in NamedSections : Member[k] = t)]

Established(admins) == EstablishedWith(admins, Requests)

(* plain commands are broadcast to the participants and notified to the
   admins while peers go away, before their handlers are woken *)
InitEstablished == Established(AdminList)

NextEstablished ==
    \/ CommandEvents({c \in Commands : c.effect # "wave"}, {1})
    \/ \E t \in DOMAIN task : AdminSendReturns(t)
    \/ \E c \in Members \cup Admins : PeerGone(c)

SpecEstablished == InitEstablished /\ [][NextEstablished]_vars

(* wave commands are sequenced over the three sections while the peers of
   participants go away, before their handlers are woken *)
InitWave == Established(<<>>)

NextWave ==
    \/ CommandEvents({c \in Commands : c.effect = "wave"}, {1})
    \/ \E r \in Requests : SleepReturns(r)
    \/ \E c \in Members : PeerGone(c)

SpecWave == InitWave /\ [][NextWave]_vars

(* presets are requested by name, known and unknown, while the peers of
   participants go away *)
PresetNames == {"party_mode", "calm_wave", "festival_finale", "disco", ""}

InitPreset == Established(AdminList)

NextPreset ==
    \/ \E r \in Requests, n \in PresetNames, e \in {0, 1} : PostPreset(r, n, e)
    \/ \E r \in Requests : InsertReturns(r)
    \/ \E r \in Requests : ParticipantSendReturns(r)
    \/ \E r \in Requests : AdminSendReturns(r)
    \/ \E r \in Requests : SleepReturns(r)
    \/ \E c \in Members : PeerGone(c)

SpecPreset == InitPreset /\ [][NextPreset]_vars

(* the control channels: one participant sends heartbeats, section changes
   and malformed messages and leaves; one admin sends light_command and
   malformed messages *)
Speaker == Member["left"]
Commander == <<"a", 1>>
AdminMessageTypes == {"light_command", "unknown", "unparsable"}
(* the data of a light_command message: what the client wrote, with no
   timestamp; "none" is an absent wave_direction key *)
AdminCommands ==
    {[effect |-> "pulse", section |-> sec, wave_direction |-> "left_to_right",
      timestamp |-> 0] : sec \in {"all", "left", "vip"}}
    \cup
    {[effect |-> "wave", section |-> "all", wave_direction |-> w,
      timestamp |-> 0] : w \in {"center_out", "none"}}

InitChannel == EstablishedWith(AdminList, {})

NextChannel ==
    \/ \E type \in MessageTypes, sec \in {"center", "vip"} :
          ParticipantReceives(Speaker, type, sec)
    \/ \E exc \in Exceptions : AckReturns(Speaker, exc)
    \/ \E ok \in BOOLEAN : AcceptReturns(Speaker, ok)
    \/ ReceiveDisconnect(Speaker)
    \/ PeerGone(Speaker)
    \/ AdminSendReturns(Speaker)
    \/ \E type \in AdminMessageTypes, c \in AdminCommands, e \in {0, 1} :
          AdminReceives(Commander, type, c, e)
    \/ ParticipantSendReturns(Commander)
    \/ SleepReturns(Commander)
    \/ AdminInsertReturns(Commander)

SpecChannel == InitChannel /\ [][NextChannel]_vars

(* one participant sends heartbeats, changes its section and goes away
   while a command is broadcast and notified to one admin *)
InitHeartbeat == Established(<<Commander>>)

NextHeartbeat ==
    \/ \E type \in {"heartbeat", "section_change"} :
          ParticipantReceives(Speaker, type, "center")
    \/ \E exc \in Exceptions : AckReturns(Speaker, exc)
    \/ \E ok \in BOOLEAN : AcceptReturns(Speaker, ok)
    \/ ReceiveDisconnect(Speaker)
    \/ PeerGone(Speaker)
    \/ \E t \in Requests \cup {Speaker} : AdminSendReturns(t)
    \/ CommandEvents({c \in PlainCommands : c.section = "left"}, {1})

SpecHeartbeat == InitHeartbeat /\ [][NextHeartbeat]_vars

(* a command is notified to the admins while their peers go away and their
   handlers leave *)
InitAdminPush == Established(AdminList)

NextAdminPush ==
    \/ CommandEvents({c \in PlainCommands : c.section \in {"left", "vip"}}, {1})
    \/ \E t \in DOMAIN task : AdminSendReturns(t)
    \/ \E a \in Admins : PeerGone(a)
    \/ \E a \in Admins : ReceiveDisconnect(a)

SpecAdminPush == InitAdminPush /\ [][NextAdminPush]_vars

(* a plain command is broadcast while registered participants go away and
   their handlers leave *)
InitDeparture == Established(<<>>)

NextDeparture ==
    \/ CommandEvents({c \in PlainCommands : c.section \in {"all", "left"}}, {1})
    \/ \E c \in Members : PeerGone(c)
    \/ \E c \in Members : ReceiveDisconnect(c)

SpecDeparture == InitDeparture /\ [][NextDeparture]_vars

(* two wave commands are accepted and sequenced side by side while the
   peers of participants go away *)
Wavers == {<<"w", 1>>, <<"w", 2>>}
TwoWaveDirections == {"left_to_right", "center_out", "right_to_left"}

InitTwoWaves == EstablishedWith(<<>>, Wavers)

NextTwoWaves ==
    \/ \E w \in Wavers, e \in {0, 1} :
          \E c \in {c \in Commands : /\ c.effect = "wave"
                                     /\ c.wave_direction \in TwoWaveDirections} :
             PostLightCommand(w, c, e)
    \/ \E w \in Wavers : InsertReturns(w)
    \/ \E w \in Wavers : ParticipantSendReturns(w)
    \/ \E w \in Wavers : SleepReturns(w)
    \/ \E c \in Members : PeerGone(c)

SpecTwoWaves == InitTwoWaves /\ [][NextTwoWaves]_vars

(* admins connect while a command is notified and a participant leaves *)
InitAdminJoin == EstablishedWith(<<>>, Admins \cup Requests)

NextAdminJoin ==
    \/ \E a \in Admins : AdminConnects(a)
    \/ \E a \in Admins : AcceptReturns(a, TRUE)
    \/ \E a \in Admins, exc \in Exceptions : InitStatsReturns(a, exc)
    \/ \E a \in Admins : PeerGone(a)
    \/ CommandEvents({c \in PlainCommands : c.section \in {"left", "vip"}}, {1})
    \/ \E t \in DOMAIN task : AdminSendReturns(t)
    \/ PeerGone(Speaker)
    \/ ReceiveDisconnect(Speaker)

SpecAdminJoin == InitAdminJoin /\ [][NextAdminJoin]_vars

(* beat samples are accepted while the peers of participants go away *)
Beats == {[bpm |-> b, intensity |-> i, timestamp |-> 0] :
             b \in {90, 128}, i \in {0, 9, 10, 15}}

InitBeat == Established(<<>>)

NextBeat ==
    \/ \E r \in Requests, b \in Beats : PostBeatData(r, b, 1)
    \/ \E r \in Requests : BeatInsertReturns(r)
    \/ \E r \in Requests, found \in BOOLEAN : FindEventReturns(r, found)
    \/ \E r \in Requests : ParticipantSendReturns(r)
    \/ \E c \in Members : PeerGone(c)

SpecBeat == InitBeat /\ [][NextBeat]_vars

(* commands arrive over HTTP and over the admin channel and beat samples
   over HTTP while clients poll both caches *)
CacheCommands == {c \in PlainCommands : c.section = "left"}

InitCaches == EstablishedWith(<<Commander>>, Requests \cup Queries)

NextCaches ==
    \/ \E r \in Requests, c \in CacheCommands, e \in {0, 1} :
          PostLightCommand(r, c, e)
    \/ \E r \in Requests : InsertReturns(r)
    \/ \E t \in Requests \cup {Commander} : ParticipantSendReturns(t)
    \/ \E r \in Requests : AdminSendReturns(r)
    \/ \E c \in CacheCommands, e \in {0, 1} :
          AdminReceives(Commander, "light_command", c, e)
    \/ AdminInsertReturns(Commander)
    \/ \E r \in Requests, b \in Beats, e \in {0, 1} : PostBeatData(r, b, e)
    \/ \E r \in Requests : BeatInsertReturns(r)
    \/ \E r \in Requests, found \in BOOLEAN : FindEventReturns(r, found)
    \/ \E q \in Queries : PollLatestCommand(q, NoSince)
    \/ \E q \in Queries : PollLatestBeat(q)

SpecCaches == InitCaches /\ [][NextCaches]_vars

(* commands are accepted while clients poll for the latest one, with the
   since-timestamps of every form around the instants the clock takes *)
Sinces ==
    {[form |-> f, t |-> 0] : f \in {"absent", "empty", "malformed"}}
    \cup {[form |-> f, t |-> t] : f \in {"aware", "naive"}, t \in 0..(MaxClock + 1)}

InitPoll == EmptyRegistry(Requests \cup Queries)

NextPoll ==
    \/ \E r \in Requests, c \in PlainCommands : PostLightCommand(r, c, 1)
    \/ \E r \in Requests : InsertReturns(r)
    \/ \E q \in Queries, timestamp \in Sinces : PollLatestCommand(q, timestamp)

SpecPoll == InitPoll /\ [][NextPoll]_vars

(* one wave is sequenced while a further participant joins, changes section
   and leaves, plain commands are submitted and the stats are queried *)
Newcomer == <<"p", 0>>
Waver == <<"w", 1>>
PacingWave == [effect |-> "wave", section |-> "all",
               wave_direction |-> "left_to_right", timestamp |-> 0]
PacingCommand == [effect |-> "pulse", section |-> "left",
                  wave_direction |-> "left_to_right", timestamp |-> 0]

InitPacing == EstablishedWith(<<>>, {Newcomer, Waver} \cup Requests \cup Queries)

NextPacing ==
    \/ PostLightCommand(Waver, PacingWave, 1)
    \/ \E r \in Requests : PostLightCommand(r, PacingCommand, 0)
    \/ \E t \in Requests \cup {Waver} : InsertReturns(t)
    \/ \E t \in Requests \cup {Waver} : ParticipantSendReturns(t)
    \/ SleepReturns(Waver)
    \/ ParticipantConnects(Newcomer, "left")
    \/ \E ok \in BOOLEAN : AcceptReturns(Newcomer, ok)
    \/ ParticipantReceives(Newcomer, "section_change", "center")
    \/ ReceiveDisconnect(Newcomer)
    \/ PeerGone(Newcomer)
    \/ \E q \in Queries : GetStats(q)

SpecPacing == InitPacing /\ [][NextPacing]_vars

(* two requests submit plain commands and waves that overlap, at the same
   or at later instants, while a client polls with a since-timestamp *)
InitOverlap == EstablishedWith(<<>>, Wavers \cup Queries)

NextOverlap ==
    \/ \E w \in Wavers, c \in {PacingCommand, PacingWave}, e \in {0, 1} :
          PostLightCommand(w, c, e)
    \/ \E w \in Wavers : InsertReturns(w)
    \/ \E w \in Wavers : ParticipantSendReturns(w)
    \/ \E w \in Wavers : SleepReturns(w)
    \/ \E q \in Queries, timestamp \in Sinces : PollLatestCommand(q, timestamp)

SpecOverlap == InitOverlap /\ [][NextOverlap]_vars

(* beat samples are accepted, with and without an active event, beside a
   command while a client polls for the latest command *)
Samplers == {<<"b", 1>>}
FrameBeats == {b \in Beats : b.bpm = 128 /\ b.intensity \in {9, 15}}

InitBeatFrame == EstablishedWith(<<>>, Requests \cup Samplers \cup Queries)

NextBeatFrame ==
    \/ \E r \in Requests, e \in {0, 1} : PostLightCommand(r, PacingCommand, e)
    \/ \E r \in Requests : InsertReturns(r)
    \/ \E t \in Requests \cup Samplers : ParticipantSendReturns(t)
    \/ \E s \in Samplers, b \in FrameBeats, e \in {0, 1} : PostBeatData(s, b, e)
    \/ \E s \in Samplers : BeatInsertReturns(s)
    \/ \E s \in Samplers, found \in BOOLEAN : FindEventReturns(s, found)
    \/ \E q \in Queries : PollLatestCommand(q, NoSince)

SpecBeatFrame == InitBeatFrame /\ [][NextBeatFrame]_vars

(* one wave is sequenced while the peers of two members go away, these
   members leave, a further participant joins and a plain command is
   broadcast.  The event loop resumes a task whose await has ended: the
   insert, every send and every pacing wait of the wave return *)
FairWaves == {c \in Commands : c.effect = "wave"
                               /\ c.wave_direction = "center_out"}
Leavers == {Member["left"], Member["center"]}

InitWaveFair == EstablishedWith(<<>>, {Newcomer, Waver} \cup Requests)

NextWaveFair ==
    \/ \E c \in FairWaves : PostLightCommand(Waver, c, 1)
    \/ \E r \in Requests : PostLightCommand(r, PacingCommand, 0)
    \/ \E t \in Requests \cup {Waver} : InsertReturns(t)
    \/ \E t \in Requests \cup {Waver} : ParticipantSendReturns(t)
    \/ SleepReturns(Waver)
    \/ ParticipantConnects(Newcomer, "left")
    \/ \E ok \in BOOLEAN : AcceptReturns(Newcomer, ok)
    \/ \E c \in Leavers : ReceiveDisconnect(c)
    \/ \E c \in Leavers : PeerGone(c)

SpecWaveFair ==
    /\ InitWaveFair
    /\ [][NextWaveFair]_vars
    /\ WF_vars(InsertReturns(Waver))
    /\ WF_vars(ParticipantSendReturns(Waver))
    /\ WF_vars(SleepReturns(Waver))



----------------------------------------------------------------------------
(* Properties of the registry (SpecRegistry) *)

Conns == {t \in DOMAIN task : IsParticipant(t)}

(* no join, leave or section change is in progress, and every participant
   whose peer is gone has left *)
Quiescent ==
    \A p \in Conns : /\ task[p].pc \in {"idle", "recv", "closed"}
                     /\ p \in broken => task[p].pc = "closed"

(* joined and not yet left *)
Live == {p \in Conns : task[p].pc = "recv"}

(* C1: between operations, the total of get_section_stats is the number of
   distinct live participant connections *)
C1_TotalIsLiveCount ==
    Quiescent =>
        get_section_stats(participant_connections).total = Cardinality(Live)

(* disconnect_participant(p) has returned in the handler of p *)
HasLeft(p) ==
    \/ task[p].pc = "closed"
    \/ task[p].pc = "send_a" /\ task[p].ret = "wp_end"

(* C3: after leave(c) returned, c is in none of the four membership lists *)
C3_LeaveRemovesEverywhere ==
    \A p \in Conns :
        HasLeft(p) => \A k \in SectionKeys :
                          ~InList(p, participant_connections[k])

(* the section change of p to a key of the registry has completed *)
Changed(p) ==
    /\ task[p].pc = "recv"
    /\ task[p].changes >= 1
    /\ task[p].section \in SectionKeys
    /\ ~Dead(p)

(* C4: after a section change of c to S, c is counted in S, in no other
   named section, and exactly once in "all" *)
C4_ChangeCountsOnce ==
    \A p \in Conns :
        Changed(p) =>
            /\ Count(p, participant_connections[task[p].section]) = 1
            /\ \A k \in NamedSections \ {task[p].section} :
                   Count(p, participant_connections[k]) = 0
            /\ Count(p, participant_connections["all"]) = 1

----------------------------------------------------------------------------
(* Properties of a broadcast while participants come, move and go (Spec) *)

(* the sends of task t to connection c, by outcome *)
Sends(t, c, ok) ==
    {n \in 1..Len(task[t].log) :
        /\ task[t].log[n].ev = "send"
        /\ task[t].log[n].to = c
        /\ task[t].log[n].ok = ok}

(* the request has broadcast a plain command to section sec and returned *)
Broadcast(r, sec) ==
    /\ task[r].pc = "done"
    /\ task[r].command_data.effect # "wave"
    /\ task[r].command_data.section = sec

(* C2: one broadcast to "all" delivers at most once to each connection *)
C2_AllDeliversAtMostOnce ==
    \A r \in Requests : \A p \in Conns :
        Broadcast(r, "all") => Cardinality(Sends(r, p, TRUE)) <= 1

(* C5: a broadcast to "all" that began while c was in a section change, with
   c connected and healthy to its end, delivers to c exactly once *)
C5_SectionChangeAtomic ==
    \A r \in Requests : \A p \in Conns :
        (/\ Broadcast(r, "all")
         /\ p \in task[r].window
         /\ task[p].pc \in {"accept", "recv"}
         /\ ~Dead(p))
        => Cardinality(Sends(r, p, TRUE)) = 1

InRegistry(c, pcs) == \E k \in SectionKeys : InList(c, pcs[k])

(* C7: when a participant broadcast completes, every connection whose send
   failed is in no membership list, and its completion removes no connection
   whose send succeeded *)
C7_FailedArePruned ==
    [][\A r \in Requests :
          (task[r].pc = "send_p" /\ task'[r].pc = "done") =>
              \A c \in Conns :
                  /\ Sends(r, c, FALSE)' # {} /\ Sends(r, c, TRUE)' = {}
                        => ~InRegistry(c, participant_connections')
                  /\ (/\ Sends(r, c, TRUE)' # {} /\ Sends(r, c, FALSE)' = {}
                      /\ InRegistry(c, participant_connections))
                        => InRegistry(c, participant_connections')]_vars

----------------------------------------------------------------------------
(* Properties of commands sent to established connections (SpecEstablished,
   SpecWave) *)

(* C6: a failed send does not end the broadcast: while the live target list
   holds a further connection, the task goes on to send to it *)
C6_FailureDoesNotAbort ==
    [][\A t \in DOMAIN task :
          /\ (/\ task[t].pc = "send_p"
              /\ task'[t] # task[t]
              /\ Dead(task[t].cur)
              /\ task[t].it < Len(TargetList(participant_connections, task[t].bsec)))
             => /\ task'[t].pc = "send_p"
                /\ task'[t].cur =
                     TargetList(participant_connections, task[t].bsec)[task[t].it + 1]
          /\ (/\ task[t].pc = "send_a"
              /\ task'[t] # task[t]
              /\ Dead(task[t].cur)
              /\ task[t].it < Len(admin_connections))
             => /\ task'[t].pc = "send_a"
                /\ task'[t].cur = admin_connections[task[t].it + 1]]_vars

(* a failed send to a participant and a failed send to an admin were each
   followed by the send to the next connection of the same broadcast *)
C6_Witness ==
    \E r \in Requests :
        LET log == task[r].log IN
        /\ \E n \in 1..(Len(log) - 1) :
              /\ log[n].ev = "send" /\ ~log[n].ok
              /\ log[n + 1].ev = "send" /\ log[n + 1].ok
        /\ \E n \in 1..(Len(log) - 1) :
              /\ log[n].ev = "asend" /\ ~log[n].ok
              /\ log[n + 1].ev = "asend" /\ log[n + 1].ok

IsSend(e) == e.ev = "send"
IsDispatch(e) == e.ev = "dispatch"
IsMark(e) == e.ev \in {"dispatch", "sleep"}

(* the sections a wave has dispatched to so far, in order *)
Dispatched(r) ==
    LET d == SelectSeq(task[r].log, IsDispatch) IN
    [n \in 1..Len(d) |-> d[n].sec]

IsWave(r) == task[r].command_data.effect = "wave"

(* the order the specification gives for each direction *)
SpecifiedOrder(wave_direction) ==
    CASE wave_direction = "left_to_right" -> <<"left", "center", "right">>
      [] wave_direction = "center_out"    -> <<"center", "left", "right">>
      [] wave_direction = "right_to_left" -> <<"right", "center", "left">>
      [] OTHER                            -> <<"left", "center", "right">>

(* C8: a wave dispatches to the named sections in the order its direction
   selects; "random" and unknown directions give left, center, right *)
C8_WaveOrder ==
    \A r \in Requests :
        IsWave(r) =>
            LET want == SpecifiedOrder(task[r].command_data.wave_direction)
                got  == Dispatched(r) IN
            /\ Len(got) <= Len(want)
            /\ \A n \in 1..Len(got) : got[n] = want[n]
            /\ task[r].pc = "done" => got = want

C8_Witness ==
    \E r \in Requests :
        /\ task[r].pc = "done"
        /\ task[r].command_data.wave_direction = "center_out"
        /\ Dispatched(r) = <<"center", "left", "right">>

(* C9: a wave accepted while each named section holds its one healthy
   connection: three broadcasts, the n-th with wave_delay 0, 300, 600,
   each sent to exactly the connection of its section *)
C9_WaveEndToEnd ==
    \A r \in Requests :
        (task[r].pc = "done" /\ IsWave(r) /\ broken \cap Members = {}) =>
            LET d == SelectSeq(task[r].log, IsDispatch)
                sent == SelectSeq(task[r].log, IsSend) IN
            /\ Len(d) = 3
            /\ Len(sent) = 3
            /\ \A n \in 1..3 :
                  /\ d[n].msg.delay = (n - 1) * 300
                  /\ sent[n].sec = d[n].sec
                  /\ sent[n].to = Member[d[n].sec]
                  /\ sent[n].msg = d[n].msg
                  /\ sent[n].msg.data = task[r].command_data
                  /\ sent[n].ok

C9_Witness ==
    \E r \in Requests :
        /\ task[r].pc = "done" /\ IsWave(r) /\ broken \cap Members = {}
        /\ Dispatched(r) = <<"left", "center", "right">>
        /\ Len(SelectSeq(task[r].log, IsSend)) = 3

(* the section of the last dispatch before position n of a log *)
RECURSIVE LastDispatch(_, _)
LastDispatch(log, n) ==
    IF n = 0 THEN "none"
    ELSE IF log[n].ev = "dispatch" THEN log[n].sec
    ELSE LastDispatch(log, n - 1)

(* C10: the dispatches of a wave alternate with pacing waits, dispatch first
   and last, two waits for three sections; every send goes to the section
   dispatched last, so no section starts before the previous one *)
C10_WaveSequential ==
    \A r \in Requests :
        IsWave(r) =>
            LET log == task[r].log
                m == SelectSeq(log, IsMark) IN
            /\ Len(m) <= 5
            /\ \A n \in 1..Len(m) :
                  m[n].ev = IF n % 2 = 1 THEN "dispatch" ELSE "sleep"
            /\ \A n \in 1..Len(log) :
                  log[n].ev = "send" => log[n].sec = LastDispatch(log, n)
            /\ task[r].pc = "sleep" <=> (Len(m) > 0 /\ m[Len(m)].ev = "sleep"
                                         /\ Len(log) > 0 /\ log[Len(log)].ev = "sleep")
            /\ task[r].pc = "done" => Len(m) = 5

C10_Witness ==
    \E r \in Requests :
        /\ task[r].pc = "done" /\ IsWave(r)
        /\ Len(SelectSeq(task[r].log, IsMark)) = 5
        /\ Len(SelectSeq(task[r].log, IsSend)) = 3

----------------------------------------------------------------------------
(* Properties of a wave in its pacing waits (SpecPacing) *)

IsSleep(e) == e.ev = "sleep"
Sleeps(t) == Len(SelectSeq(task[t].log, IsSleep))

(* C11: a wave is suspended at every pacing wait, and the steps other
   operations take while it is suspended leave the wave as it is and take
   full effect: a join registers, a leave and a section change remove, a
   command overwrites the cache, a stats query reports the registry *)
C11_WaveDoesNotBlock ==
       [][/\ Sleeps(Waver)' > Sleeps(Waver) => task'[Waver].pc = "sleep"
          /\ (task[Waver].pc = "sleep" /\ ~SleepReturns(Waver)) =>
                /\ task'[Waver] = task[Waver]
                /\ (/\ task[Newcomer].pc = "accept" /\ task'[Newcomer].pc = "recv")
                      => /\ InList(Newcomer,
                                   participant_connections'[task'[Newcomer].section])
                         /\ InList(Newcomer, participant_connections'["all"])
                /\ (/\ task[Newcomer].pc = "recv"
                    /\ task'[Newcomer].pc \in {"accept", "closed"})
                      => \A k \in NamedSections :
                            ~InList(Newcomer, participant_connections'[k])
                /\ \A r \in Requests :
                      (task[r].pc = "idle" /\ task'[r].pc = "db_insert")
                         => latest_command' = task'[r].command_data
                /\ \A q \in Queries :
                      (task[q].pc = "idle" /\ task'[q].pc = "done")
                         => task'[q].result.stats =
                               get_section_stats(participant_connections)]_vars

(* the wave is in its first pacing wait; since that wait began the newcomer
   has joined "left", a plain command to "left" was accepted, stored,
   delivered to the newcomer and has returned, and a stats query has counted
   the newcomer *)
C11_Witness ==
    /\ task[Waver].pc = "sleep"
    /\ Sleeps(Waver) = 1
    /\ task[Newcomer].asleep = {Waver}
    /\ task[Newcomer].pc = "recv"
    /\ task[Newcomer].changes = 0
    /\ \E r \in Requests :
          /\ task[r].asleep = {Waver}
          /\ task[r].pc = "done"
          /\ Sends(r, Newcomer, TRUE) # {}
    /\ \E q \in Queries :
          /\ task[q].asleep = {Waver}
          /\ task[q].pc = "done"
          /\ task[q].result.stats.left = 2

----------------------------------------------------------------------------
(* Properties of the command relay (SpecEstablished) *)

IsAdminSend(e) == e.ev = "asend"

(* the request has been accepted: its command is stamped *)
Accepted(r) == task[r].command_data # NoCmd

(* C12: the steps of send_light_command in the specified order: the stamp,
   then the history write, then the cache update, then the dispatch, then
   the command_sent push: the cache holds the command only once its history
   write is done, a send to a participant happens only once the cache holds
   the command, and a push to an admin only after every participant send *)
C12_AcceptOrder ==
    \A r \in Requests :
        Accepted(r) =>
            LET log == task[r].log IN
            /\ latest_command = task[r].command_data => light_commands >= 1
            /\ SelectSeq(log, IsSend) # <<>> =>
                  /\ light_commands >= 1
                  /\ latest_command = task[r].command_data
            /\ \A n \in 1..Len(log) : \A k \in 1..Len(log) :
                  (log[n].ev = "asend" /\ log[k].ev = "send") => k < n
            /\ \A n \in 1..Len(log) :
                  log[n].ev = "asend" =>
                      /\ log[n].msg.type = "command_sent"
                      /\ log[n].msg.data = task[r].command_data

----------------------------------------------------------------------------
(* Properties of the pull fallback (SpecPoll) *)

(* what the specification gives for a poll of cache lc with since-timestamp
   timestamp: a well-formed timestamp is one that names an instant *)
SpecifiedPoll(lc, timestamp) ==
    IF lc = NoCmd THEN NoCmd
    ELSE IF timestamp.form \in {"absent", "empty", "malformed"} THEN lc
    ELSE IF lc.timestamp > timestamp.t THEN lc ELSE NoCmd

(* C13: a poll returns null when nothing was accepted, the cached command
   when the since-timestamp is absent or malformed, and for a well-formed
   since-timestamp T the cached command if and only if its timestamp is
   strictly later than T *)
C13_PollLatest ==
    [][\A q \in Queries :
          (task[q].pc = "idle" /\ task'[q].result.kind = "command") =>
              task'[q].result.command =
                  SpecifiedPoll(latest_command, task'[q].since)]_vars

----------------------------------------------------------------------------
(* Properties of the beat relay (SpecBeat) *)

(* the request has taken in a beat sample and its query has returned *)
BeatAnswered(r) ==
    task[r].beat_data # NoBeat /\ task[r].pc \notin {"beat_insert", "find_event"}

(* C14: a beat sample whose query found an active event with beat sync
   enabled gives exactly one broadcast, of type beat_sync, to "all", with
   the capped intensity and the bpm of the sample, and every send of the
   request carries it; one whose query found none gives no broadcast and
   no send; in both cases latest_beat_data holds the sample from its
   acceptance on, until a later sample replaces it *)
C14_BeatBroadcast ==
    \A r \in Requests :
        /\ task[r].beat_data # NoBeat =>
              \/ latest_beat_data = task[r].beat_data
              \/ \E o \in Requests :
                    /\ latest_beat_data = task[o].beat_data
                    /\ task[o].beat_data.timestamp > task[r].beat_data.timestamp
        /\ BeatAnswered(r) =>
              LET d == SelectSeq(task[r].log, IsDispatch)
                  sent == SelectSeq(task[r].log, IsSend) IN
              IF task[r].active_event
              THEN /\ Len(d) = 1
                   /\ d[1].sec = "all"
                   /\ d[1].msg.type = "beat_sync"
                   /\ d[1].msg.data.effect = "beat_sync"
                   /\ d[1].msg.data.bpm = task[r].beat_data.bpm
                   /\ d[1].msg.data.intensity =
                         (IF task[r].beat_data.intensity <= 10
                          THEN task[r].beat_data.intensity ELSE 10)
                   /\ \A n \in 1..Len(sent) :
                         sent[n].sec = "all" /\ sent[n].msg = d[1].msg
              ELSE d = <<>> /\ sent = <<>>

(* a sample of intensity 1.5 was broadcast with intensity 1.0 to all three
   connections *)
C14_Witness ==
    \E r \in Requests :
        /\ task[r].pc = "done"
        /\ task[r].active_event
        /\ task[r].beat_data.intensity = 15
        /\ \A c \in Members : Cardinality(Sends(r, c, TRUE)) = 1
        /\ \A n \in 1..Len(task[r].log) :
              task[r].log[n].msg.data.intensity = 10

----------------------------------------------------------------------------
(* Properties of the control channels (SpecChannel) *)

(* the admin handler has handled a light_command and is receiving again *)
Handled(a) == task[a].pc = "recv" /\ task[a].changes >= 1

(* C15: a light_command an admin sent over its channel is handled like one
   submitted over HTTP: the payload sent to the participants is the stamped
   command, the cache holds it, and a command_sent push went to the admins *)
C15_AdminCommandLikeHttp ==
    \A a \in Admins \cap DOMAIN task :
        Handled(a) =>
            LET log == task[a].log IN
            /\ \A n \in 1..Len(log) :
                  log[n].ev = "send" => log[n].msg.data = task[a].command_data
            /\ latest_command = task[a].command_data
            /\ \E n \in 1..Len(log) :
                  /\ log[n].ev = "asend"
                  /\ log[n].msg.type = "command_sent"

(* the step of task t changes the membership of the participants *)
MembershipChanges == participant_connections' # participant_connections

(* C16: every step that changes the membership of the participants, in a
   join, a leave, a pruning or a section change, goes on to push
   participant_update with the section stats of the new membership to the
   admins *)
C16_ChangePushesStats ==
    [][(MembershipChanges /\ admin_connections' # <<>>) =>
          \E t \in DOMAIN task :
             /\ task'[t] # task[t]
             /\ task'[t].pc = "send_a"
             /\ task'[t].msg.type = "participant_update"
             /\ task'[t].msg.stats =
                   get_section_stats(participant_connections')]_vars

(* C17: a message of unknown type or a text that is no JSON, on a
   participant or an admin channel, is ignored: the handler receives again
   and both registries stay as they are *)
C17_MalformedIgnored ==
    [][\A t \in DOMAIN task : \A type \in {"unknown", "unparsable"} :
          (\/ IsParticipant(t) /\ ParticipantReceives(t, type, "all")
           \/ IsAdmin(t) /\ \E e \in {0, 1} : AdminReceives(t, type, NoCmd, e))
          => /\ task'[t].pc = "recv"
             /\ UNCHANGED <<participant_connections, admin_connections>>]_vars

----------------------------------------------------------------------------
(* Properties of a push to the admins while admins leave (SpecAdminPush) *)

(* the sends of task t to admin a, by outcome *)
AdminSends(t, a, ok) ==
    {n \in 1..Len(task[t].log) :
        /\ task[t].log[n].ev = "asend"
        /\ task[t].log[n].to = a
        /\ task[t].log[n].ok = ok}

(* C18: a push to the admins never raises into its caller, whatever the
   handlers of the admins do meanwhile; when it completes, every admin whose
   send failed is out of admin_connections and no other admin was removed
   by it *)
C18_AdminFailureNotSurfaced ==
    [][\A t \in DOMAIN task :
          (task[t].pc = "send_a" /\ task'[t] # task[t]) =>
              /\ task'[t].pc # "crashed"
              /\ task'[t].pc # "send_a" =>
                    \A a \in Admins :
                       /\ AdminSends(t, a, FALSE)' # {}
                             => ~InList(a, admin_connections')
                       /\ (AdminSends(t, a, FALSE)' = {}
                           /\ InList(a, admin_connections))
                             => InList(a, admin_connections')]_vars

----------------------------------------------------------------------------
(* Further properties of the registry (SpecRegistry, SpecEstablished) *)

(* C19: every registered participant connection is in exactly one named
   section and in "all", each once; after a section change it is in the
   section it changed to *)
C19_OneSectionAndAll ==
    \A p \in Conns :
        InRegistry(p, participant_connections) =>
            /\ Cardinality({k \in NamedSections :
                               InList(p, participant_connections[k])}) = 1
            /\ InList(p, participant_connections["all"])
            /\ \A k \in SectionKeys : Count(p, participant_connections[k]) <= 1
            /\ (Changed(p) /\ task[p].section \in NamedSections) =>
                  InList(p, participant_connections[task[p].section])

(* registered and healthy from the start to this state: the handler is
   receiving, the peer is there, no broadcast has pruned the connection *)
Persistent(c, sec) ==
    /\ task[c].pc = "recv"
    /\ ~Dead(c)
    /\ InList(c, participant_connections[sec])

(* C20: a plain command to a named section S or to "all" is delivered once
   to every healthy connection registered in S when it is dispatched, and
   with a named S to no connection registered only in another section *)
C20_PlainTargets ==
    \A r \in Requests : \A sec \in SectionKeys :
        Broadcast(r, sec) =>
            \A c \in Members :
                /\ Persistent(c, sec) => Cardinality(Sends(r, c, TRUE)) = 1
                /\ (sec \in NamedSections /\ c # Member[sec]) =>
                      Sends(r, c, TRUE) \cup Sends(r, c, FALSE) = {}

(* C21: in every state a task can observe, between two awaits, the
   membership lists are whole: no connection is in two named sections or
   twice in one, and every connection of a named section is in "all" *)
C21_NeverHalfUpdated ==
    \A c \in Conns :
        /\ Cardinality({k \in NamedSections :
                           InList(c, participant_connections[k])}) <= 1
        /\ \A k \in NamedSections : Count(c, participant_connections[k]) <= 1
        /\ (\E k \in NamedSections : InList(c, participant_connections[k]))
              => InList(c, participant_connections["all"])

(* one participant has moved to a named section while another is registered
   in a named section too *)
C21_Witness ==
    \E p \in Conns : \E q \in Conns \ {p} :
        /\ Changed(p)
        /\ task[p].section \in NamedSections
        /\ InList(p, participant_connections[task[p].section])
        /\ \E k \in NamedSections : InList(q, participant_connections[k])

----------------------------------------------------------------------------
(* Properties of two waves side by side (SpecTwoWaves) *)

(* C22: each of two waves in progress dispatches its own sections in the
   order of its own direction, with its own delays 0, 300, 600 and its own
   command as payload; each of its sends carries the message of its own last
   dispatch; neither ends before its third dispatch *)
C22_WavesIndependent ==
    \A w \in Wavers :
        IsWave(w) =>
            LET want == SpecifiedOrder(task[w].command_data.wave_direction)
                log == task[w].log
                d == SelectSeq(log, IsDispatch) IN
            /\ task[w].pc # "crashed"
            /\ Len(d) <= 3
            /\ \A n \in 1..Len(d) :
                  /\ d[n].sec = want[n]
                  /\ d[n].msg.delay = (n - 1) * 300
                  /\ d[n].msg.data = task[w].command_data
            /\ \A n \in 1..Len(log) :
                  log[n].ev = "send" =>
                      \E k \in 1..(n - 1) :
                         /\ log[k].ev = "dispatch"
                         /\ log[k].sec = LastDispatch(log, n)
                         /\ log[k].msg = log[n].msg
                         /\ log[n].to = Member[log[k].sec]
            /\ task[w].pc = "done" => Len(d) = 3

(* two waves of different directions have both finished, the second one
   accepted while the first was in a pacing wait, each after three
   dispatches and three sends *)
C22_Witness ==
    \E w \in Wavers : \E o \in Wavers \ {w} :
        /\ task[w].pc = "done" /\ task[o].pc = "done"
        /\ task[o].asleep = {w}
        /\ task[w].command_data.wave_direction = "center_out"
        /\ task[o].command_data.wave_direction = "right_to_left"
        /\ Len(SelectSeq(task[w].log, IsDispatch)) = 3
        /\ Len(SelectSeq(task[o].log, IsDispatch)) = 3
        /\ Len(SelectSeq(task[w].log, IsSend)) = 3
        /\ Len(SelectSeq(task[o].log, IsSend)) = 3

----------------------------------------------------------------------------
(* Properties of an admin joining (SpecAdminJoin) *)

(* the step begins a send of a push of task t to admin a *)
BeginsPush(t, a) ==
    /\ task'[t].pc = "send_a"
    /\ task'[t].cur = a
    /\ task[t].pc # "send_a" \/ task'[t].it # task[t].it

(* the handler of admin a has begun the send of its initial_stats *)
BegunInitialStats(a) == task[a].pc \notin {"idle", "accept"}

(* C23: the step that registers an admin begins the send of initial_stats
   to it, carrying the section stats and the admin count of that moment;
   every send of a push to an admin begins after the send of its
   initial_stats has begun, so initial_stats is the first message on the
   connection *)
C23_InitialStatsFirst ==
    [][\A a \in Admins :
          /\ (~InList(a, admin_connections) /\ InList(a, admin_connections'))
                => /\ task'[a].pc = "init_stats"
                   /\ task'[a].msg.type = "initial_stats"
                   /\ task'[a].msg.stats =
                         get_section_stats(participant_connections')
                   /\ task'[a].msg.admin_count = Len(admin_connections')
          /\ \A t \in DOMAIN task :
                BeginsPush(t, a) => BegunInitialStats(a)]_vars

(* a push of command_sent to an admin is in progress while that admin's
   handler is still suspended in the send of its initial_stats *)
C23_Witness ==
    \E a \in Admins : \E r \in Requests :
        /\ task[a].pc = "init_stats"
        /\ task[r].pc = "send_a"
        /\ task[r].cur = a
        /\ task[r].msg.type = "command_sent"

(* C24: a participant that joined or changed section with a section name
   that is no key of the registry is registered: in "all" and in none of
   the named sections *)
C24_UnknownSectionIsAll ==
    \A p \in Conns :
        (task[p].pc = "recv" /\ task[p].section \notin SectionKeys) =>
            /\ InList(p, participant_connections["all"])
            /\ \A k \in NamedSections : ~InList(p, participant_connections[k])

(* one participant has joined with "vip" and another has changed to "vip" *)
C24_Witness ==
    \E p \in Conns : \E q \in Conns \ {p} :
        /\ task[p].pc = "recv" /\ task[p].section = "vip" /\ task[p].changes = 0
        /\ task[q].pc = "recv" /\ task[q].section = "vip" /\ task[q].changes = 1
        /\ InList(p, participant_connections["all"])
        /\ InList(q, participant_connections["all"])

----------------------------------------------------------------------------
(* Properties of the two caches (SpecCaches) *)

(* C25: once a command has been accepted, over HTTP or over the admin
   channel, a poll without since-timestamp returns a command, and none that
   was accepted is later than it; once a beat sample has been accepted, a
   poll for the latest beat returns a sample, and none is later than it *)
C25_CachesKeepLatest ==
    [][\A q \in Queries :
          /\ (task[q].pc = "idle" /\ task'[q].result.kind = "command") =>
                \A t \in DOMAIN task :
                    task[t].command_data # NoCmd =>
                        /\ task'[q].result.command # NoCmd
                        /\ task'[q].result.command.timestamp
                              >= task[t].command_data.timestamp
          /\ (task[q].pc = "idle" /\ task'[q].result.kind = "latest_beat") =>
                \A t \in DOMAIN task :
                    task[t].beat_data # NoBeat =>
                        /\ task'[q].result.beat # NoBeat
                        /\ task'[q].result.beat.timestamp
                              >= task[t].beat_data.timestamp]_vars

----------------------------------------------------------------------------
(* Properties of the presets (SpecPreset) *)

(* the request r has been answered that its preset does not exist *)
PresetNotFound(r) ==
    /\ task[r].pc = "done"
    /\ task[r].result.kind = "preset_not_found"

(* C26: a request for an unknown preset is answered with the soft failure
   in the step that receives it, and that step sends nothing to participants
   or admins and leaves the command cache, the beat cache, the history and
   the registry as they are; the answered request has sent nothing and holds
   no command *)
C26_UnknownPresetNoEffect ==
    [][\A r \in Requests :
          (task[r].pc = "idle" /\ \E n \in PresetNames \ DOMAIN presets,
                                     e \in {0, 1} : PostPreset(r, n, e)) =>
             /\ PresetNotFound(r)'
             /\ task'[r].log = <<>>
             /\ task'[r].command_data = NoCmd
             /\ latest_command' = latest_command
             /\ latest_beat_data' = latest_beat_data
             /\ light_commands' = light_commands
             /\ participant_connections' = participant_connections
             /\ admin_connections' = admin_connections
             /\ \A t \in DOMAIN task \ {r} : task'[t] = task[t]]_vars

C26_Witness ==
    \E r \in Requests :
        /\ PresetNotFound(r)
        /\ task[r].log = <<>>
        /\ latest_command = NoCmd
        /\ light_commands = 0
        /\ broken # {}

----------------------------------------------------------------------------
(* Properties of leaving twice (SpecRegistry) *)

(* C27: in every reachable registry a leave of a connection that is in no
   list changes no list, and a leave of a connection that has just left
   changes no list either; the same for the list of the admins *)
C27_LeaveIdempotent ==
    /\ \A c \in Conns :
          LET gone == disconnect_participant(participant_connections, c) IN
          /\ disconnect_participant(gone, c) = gone
          /\ (\A k \in SectionKeys : ~InList(c, participant_connections[k]))
                => gone = participant_connections
    /\ \A a \in Admins :
          LET gone == disconnect_admin(admin_connections, a) IN
          /\ disconnect_admin(gone, a) = gone
          /\ ~InList(a, admin_connections) => gone = admin_connections

----------------------------------------------------------------------------
(* Properties of the heartbeat exchange (SpecHeartbeat) *)

HeartbeatAck == Msg("heartbeat_ack", NoCmd, NoDelay, NoStats)

OthersUnchanged(p) == \A t \in DOMAIN task \ {p} : task'[t] = task[t]

CachesUnchanged ==
    /\ latest_command' = latest_command
    /\ latest_beat_data' = latest_beat_data
    /\ light_commands' = light_commands

(* C28: the step that receives a heartbeat of p suspends p's handler in the
   send of one heartbeat_ack and changes neither the registry nor the caches
   nor another task; when that send ends, exactly one heartbeat_ack has been
   sent, to p, and no task has sent one to another connection; when it
   returns, the handler is back at its receive with the registry and the
   caches as they were; when it raises, the caches are as they were and the
   registry has lost at most p, by the leave that handles the failure; no
   other step sends a heartbeat_ack or starts one *)
C28_HeartbeatAcked ==
    [][\A p \in Conns :
          /\ (\E sec \in SectionInputs : ParticipantReceives(p, "heartbeat", sec)) =>
                /\ task'[p].pc = "ack"
                /\ task'[p].log = task[p].log
                /\ participant_connections' = participant_connections
                /\ admin_connections' = admin_connections
                /\ CachesUnchanged
                /\ OthersUnchanged(p)
          /\ (task[p].pc # "ack" /\ task'[p].pc = "ack") =>
                /\ task[p].pc = "recv"
                /\ task'[p].msg = HeartbeatAck
          /\ (task[p].pc = "ack" /\ p \notin broken /\ task'[p] # task[p]) =>
                /\ task'[p].pc = "recv"
                /\ task'[p].log =
                      Append(task[p].log,
                             Ev("ack", p, task[p].section, HeartbeatAck, TRUE))
                /\ participant_connections' = participant_connections
                /\ admin_connections' = admin_connections
                /\ CachesUnchanged
                /\ OthersUnchanged(p)
          /\ (task[p].pc = "ack" /\ p \in broken /\ task'[p] # task[p]) =>
                /\ task'[p].pc # "closed" =>
                      task'[p].log =
                         Append(task[p].log,
                                Ev("ack", p, task[p].section, HeartbeatAck, FALSE))
                /\ participant_connections' \in
                      {participant_connections,
                       disconnect_participant(participant_connections, p)}
                /\ CachesUnchanged
                /\ OthersUnchanged(p)
          /\ task[p].pc # "ack" => Acked(task'[p]) <= Acked(task[p])
          /\ \A t \in DOMAIN task : \A n \in 1..Len(task[t].log) :
                task[t].log[n].ev = "ack" => task[t].log[n].to = t]_vars

(* a heartbeat was answered and the handler waits for the next message, with
   every member where it was *)
C28_Witness ==
    /\ task[Speaker].pc = "recv"
    /\ task[Speaker].changes = 0
    /\ Acked(task[Speaker]) = 1
    /\ \E n \in 1..Len(task[Speaker].log) :
          task[Speaker].log[n] =
             Ev("ack", Speaker, "left", HeartbeatAck, TRUE)
    /\ participant_connections["all"] =
          <<Member["left"], Member["center"], Member["right"]>>
    /\ participant_connections["left"] = <<Speaker>>

----------------------------------------------------------------------------
(* Properties of a broadcast whose list changes under it (SpecDeparture) *)

(* C29: when a broadcast to a section has returned, it has attempted a send
   to every connection that is still in the list of that section, and so was
   in it from the dispatch on, whatever left or was pruned meanwhile *)
C29_NoPersistentSkipped ==
    \A r \in Requests : \A sec \in SectionKeys :
        Broadcast(r, sec) =>
            \A c \in Members :
                InList(c, participant_connections[sec]) =>
                    Sends(r, c, TRUE) \cup Sends(r, c, FALSE) # {}

----------------------------------------------------------------------------
(* Termination of the wave (SpecWaveFair) *)

(* the wave sequence of r has started: send_wave_effect has chosen its
   order *)
WaveStarted(r) == task[r].sections # <<>> /\ task[r].pc # "done"

(* the wave of r has dispatched to the three named sections, once each in
   the order of its direction, and its request has returned *)
WaveCompleted(r) ==
    /\ task[r].pc = "done"
    /\ Dispatched(r) = SpecifiedOrder(task[r].command_data.wave_direction)
    /\ {Dispatched(r)[n] : n \in 1..Len(Dispatched(r))} = NamedSections

(* C30: under fair scheduling a wave that has started goes on until it has
   dispatched to the three named sections and returned, whatever sends fail,
   whichever sections are empty, and whatever joins, leaves and other
   commands come meanwhile *)
C30_WaveTerminates == WaveStarted(Waver) ~> WaveCompleted(Waver)

(* a wave completed although a send of it failed, a section was empty when
   it was dispatched to, the further participant had joined and another
   command was broadcast *)
C30_Witness ==
    /\ WaveCompleted(Waver)
    /\ \E c \in Members : Sends(Waver, c, FALSE) # {}
    /\ \E c \in Members :
          Sends(Waver, c, TRUE) \cup Sends(Waver, c, FALSE) = {}
    /\ Sends(Waver, Newcomer, TRUE) # {}
    /\ \A r \in Requests : task[r].pc = "done"

----------------------------------------------------------------------------
(* Properties of the command cache under overlapping requests (SpecOverlap) *)

(* the commands send_light_command has stamped so far *)
Stamped == {task[t].command_data : t \in {w \in Wavers : task[w].command_data # NoCmd}}

(* C31: no step lowers the timestamp of the cached command or empties the
   cache; after every step the cache holds a command stamped no earlier than
   any command stamped so far, whichever requests are suspended at their
   insert, at a send or at a pacing wait; and a poll with the well-formed
   since-timestamp T returns a command stamped later than T whenever one has
   been stamped *)
C31_CacheNeverGoesBack ==
    [][/\ latest_command # NoCmd =>
             /\ latest_command' # NoCmd
             /\ latest_command'.timestamp >= latest_command.timestamp
       /\ \A c \in Stamped' :
             /\ latest_command' # NoCmd
             /\ latest_command' \in Stamped'
             /\ latest_command'.timestamp >= c.timestamp
       /\ \A q \in Queries :
             (/\ task[q].pc = "idle"
              /\ task'[q].result.kind = "command"
              /\ task'[q].since.form \in {"aware", "naive"}
              /\ \E c \in Stamped : c.timestamp > task'[q].since.t) =>
                 /\ task'[q].result.command # NoCmd
                 /\ task'[q].result.command.timestamp > task'[q].since.t]_vars

(* a request stamped at instant 0 is still suspended, at a send or a pacing
   wait, after a request stamped at instant 1 took the cache, and a client
   that had seen instant 0 was given the later command *)
C31_Witness ==
    \E w \in Wavers : \E o \in Wavers \ {w} : \E q \in Queries :
        /\ task[w].command_data # NoCmd
        /\ task[w].command_data.timestamp = 0
        /\ task[w].pc \in {"send_p", "sleep"}
        /\ task[o].command_data # NoCmd
        /\ task[o].command_data.timestamp = 1
        /\ latest_command = task[o].command_data
        /\ task[q].pc = "done"
        /\ task[q].since = [form |-> "aware", t |-> 0]
        /\ task[q].result.command = task[o].command_data

----------------------------------------------------------------------------
(* Properties of the targets of a wave (SpecPacing) *)

(* the sends of task w to connection c, returned or raised *)
Attempts(w, c) == Sends(w, c, TRUE) \cup Sends(w, c, FALSE)

(* C32: every send of a wave sequence goes out under a named section,
   whatever the target section of the command; a participant that joined
   with "all" or an unknown section and never changed it is sent nothing by
   a wave; and no connection is sent more than one message of one wave *)
C32_WaveTargets ==
    \A w \in DOMAIN task :
        IsWave(w) =>
            /\ \A n \in 1..Len(task[w].log) :
                  task[w].log[n].ev = "send" => task[w].log[n].sec \in NamedSections
            /\ \A c \in Conns :
                  /\ (task[c].pc = "recv" /\ ~Changed(c)
                      /\ task[c].section \notin NamedSections) =>
                        Attempts(w, c) = {}
                  /\ Cardinality(Attempts(w, c)) <= 1

----------------------------------------------------------------------------
(* Properties of the command cache beside the beat relay (SpecBeatFrame) *)

(* C33: no step of a beat request, from its acceptance over its insert and
   its event query to the last send of its beat_sync broadcast, changes the
   cached command, whether the query finds an active event or none: a poll
   after it answers what a poll before it answered, and the cache never
   holds a beat_sync command *)
C33_BeatKeepsCommandCache ==
    [][/\ \A s \in Samplers :
             task'[s] # task[s] =>
                /\ latest_command' = latest_command
                /\ get_latest_command(latest_command', NoSince) =
                      get_latest_command(latest_command, NoSince)
       /\ latest_command'.effect # "beat_sync"
       /\ \A q \in Queries :
             task'[q].result.kind = "command" =>
                task'[q].result.command.effect # "beat_sync"]_vars

(* a beat sample was relayed to the members after a command was cached, and
   a poll after it was given that command *)
C33_Witness ==
    \E s \in Samplers : \E r \in Requests : \E q \in Queries :
        /\ task[s].pc = "done"
        /\ task[s].active_event
        /\ \A c \in Members : Sends(s, c, TRUE) # {}
        /\ task[r].command_data # NoCmd
        /\ task[s].beat_data.timestamp > task[r].command_data.timestamp
        /\ latest_command = task[r].command_data
        /\ task[q].pc = "done"
        /\ task[q].result.command = task[r].command_data

----------------------------------------------------------------------------
(* Properties of a command to an unknown section (SpecEstablished) *)

(* the request r holds a plain command whose section is no key of the
   registry *)
ToUnknownSection(r) ==
    /\ task[r].command_data # NoCmd
    /\ task[r].command_data.effect # "wave"
    /\ task[r].command_data.section \notin SectionKeys

(* C34: a plain command to a section that is no key of the registry is
   stored as the latest command when it is accepted; it is sent to no
   participant and no step of its request changes a membership list of the
   participants; and when its insert has returned the request goes straight
   to the push of command_sent, with the command as data, to the first
   admin registered *)
C34_UnknownTargetSection ==
    [][\A r \in Requests :
          /\ (task[r].pc = "idle" /\ ToUnknownSection(r)') =>
                latest_command' = task'[r].command_data
          /\ ToUnknownSection(r)' =>
                /\ \A c \in Conns : Attempts(r, c)' = {}
                /\ task'[r] # task[r] =>
                      participant_connections' = participant_connections
          /\ (ToUnknownSection(r) /\ task[r].pc = "db_insert"
              /\ task'[r] # task[r] /\ admin_connections # <<>>) =>
                /\ task'[r].pc = "send_a"
                /\ task'[r].cur = admin_connections[1]
                /\ task'[r].msg.type = "command_sent"
                /\ task'[r].msg.data = task[r].command_data
                /\ task'[r].msg.stats = get_section_stats(participant_connections)]_vars

(* a command to an unknown section has returned: it is the cached command,
   every member is still registered although a peer is gone, no participant
   was sent anything and both admins were sent command_sent *)
C34_Witness ==
    \E r \in Requests :
        /\ ToUnknownSection(r)
        /\ task[r].pc = "done"
        /\ latest_command = task[r].command_data
        /\ broken \cap Members # {}
        /\ participant_connections["all"] =
              <<Member["left"], Member["center"], Member["right"]>>
        /\ \A c \in Members : Attempts(r, c) = {}
        /\ \A a \in Admins : AdminSends(r, a, TRUE) # {}

====
